---- MODULE Spec2Model ----
(***************************************************************************)
(* Conversation state machine of the print-shop sales bot.                 *)
(*                                                                         *)
(* A turn (process_message_task, src/main.py) runs on one asyncio event    *)
(* loop: everything between two suspension points is atomic.  The only     *)
(* suspension point of a turn is the network call inside analyze_message   *)
(* (openai acreate); send_response and the store operations never yield.   *)
(* A turn is therefore two atomic steps: TurnStart (lines 59-98) and       *)
(* TurnResume (lines 104-195).                                             *)
(*                                                                         *)
(* Every turn opens its own SQLAlchemy session.  The session keeps ONE     *)
(* object per row (identity map); a later query of the same row returns    *)
(* that object with the attribute values it already holds.  commit()       *)
(* writes the columns whose value differs from the loaded one and          *)
(* refresh() reloads every column.                                         *)
(*                                                                         *)
(* Text is modelled as a sequence of letters, so that strip(), lower(),    *)
(* list membership and LIKE are computed.  Arabic letters are written as   *)
(* named tokens ("alef", "lam", ...), which lower() leaves alone.          *)
(* Nullable columns hold None (the empty tuple) or a one-element tuple.    *)
(* Timestamps (updated_at, created_at) decide nothing and are left out.    *)
(***************************************************************************)
EXTENDS Integers, Sequences, FiniteSets, TLC

VARIABLES conversation_states, orders, tasks, last, win, nturns, ncalls, catalog,
          hashseed

vars == <<conversation_states, orders, tasks, last, win, nturns, ncalls, catalog,
          hashseed>>

\* ------------------------------------------------------------------ bounds
MaxTurns == 3
MaxCalls == 1
MaxOrderCalls == 3
MaxSeedRuns == 3
MaxPromptCalls == 2

\* ------------------------------------------------------------ basic values
None == <<>>

Some(v) == <<v>>

\* Python truthiness of a nullable integer, of a nullable string, and of a
\* nullable text or list.
TruthyInt(x) == x # None /\ x[1] # 0

TruthyStr(x) == x # None /\ x[1] # ""

TruthySeq(x) == x # None /\ x[1] # <<>>

Phones == {"p1"}

\* ------------------------------------------------------------------- text
UpperLetters == <<"A","B","C","D","E","F","G","H","I","J","K","L","M",
                  "N","O","P","Q","R","S","T","U","V","W","X","Y","Z">>

LowerLetters == <<"a","b","c","d","e","f","g","h","i","j","k","l","m",
                  "n","o","p","q","r","s","t","u","v","w","x","y","z">>

LowerChar(c) ==
    IF \E i \in 1..Len(UpperLetters) : UpperLetters[i] = c
    THEN LowerLetters[CHOOSE i \in 1..Len(UpperLetters) : UpperLetters[i] = c]
    ELSE c

\* str.lower()
Lower(s) == [i \in 1..Len(s) |-> LowerChar(s[i])]

RECURSIVE LStrip(_)
LStrip(s) == IF s # <<>> /\ Head(s) = " " THEN LStrip(Tail(s)) ELSE s

RECURSIVE RStrip(_)
RStrip(s) ==
    IF s # <<>> /\ s[Len(s)] = " " THEN RStrip(SubSeq(s, 1, Len(s) - 1)) ELSE s

\* str.strip()
Strip(s) == RStrip(LStrip(s))

\* incoming_msg.strip().lower()
Normalize(msg) == Lower(Strip(msg))

\* SQL  column LIKE '%pattern%'  (substring match)
Like(name, pattern) ==
    \E i \in 1..(Len(name) - Len(pattern) + 1) :
        SubSeq(name, i, i + Len(pattern) - 1) = pattern

\* The words of the command vocabularies of process_message_task.
W_ilghaa    == <<"alef_hamza_below", "lam", "ghain", "alef", "hamza">>
W_alghaa    == <<"alef", "lam", "ghain", "alef", "hamza">>
W_cancel    == <<"c","a","n","c","e","l">>
W_bidaya    == <<"ba", "dal", "alef", "ya", "ta_marbuta">>
W_start     == <<"s","t","a","r","t">>
W_min_jadid == <<"mim", "nun", " ", "jim", "dal", "ya", "dal">>
W_muwafiq   == <<"mim", "waw", "alef", "fa", "qaf">>
W_ok        == <<"o","k">>
W_naam      == <<"nun", "ain", "mim">>
W_tamam     == <<"ta", "mim", "alef", "mim">>
W_taadil    == <<"ta", "ain", "dal", "ya", "lam">>
W_edit      == <<"e","d","i","t">>

\* A reset vocabulary without the English words.
ResetCommandsLocalOnly == {W_ilghaa, W_bidaya, W_min_jadid}

\* The reset commands of process_message_task (line 69).
ResetCommands == {W_ilghaa, W_cancel, W_bidaya, W_start, W_min_jadid}

AffirmWords == {W_muwafiq, W_ok, W_naam, W_tamam}

EditWords == {W_taadil, W_edit}

\* A cancellation vocabulary without the spelling that has no hamza.
ConfirmCancelWordsHamzaOnly == {W_ilghaa, W_cancel}

ConfirmCancelWords == {W_ilghaa, W_alghaa, W_cancel}

\* ---------------------------------------------------------------- catalog
\* product_categories as seeded by init_db: the index is the id.
ProductCategories == <<
    [id |-> 1, name |-> <<"alef_hamza", "kaf", "waw", "alef", "ba">>],
    [id |-> 2, name |-> <<"alef_hamza", "kaf", "ya", "alef", "sin", " ",
                          "waw", "ra", "qaf", "ya", "ta_marbuta">>],
    [id |-> 3, name |-> <<"ain", "lam", "ba", " ",
                          "alef", "lam", "tah", "ain", "alef", "mim">>],
    [id |-> 4, name |-> <<"alef", "lam", "hah", "lam", "waw", "ya", "alef", "ta",
                          " ", "waw", "alef", "lam", "mim", "khah", "alef",
                          "ba", "zain">>],
    [id |-> 5, name |-> <<"alef", "lam", "mim", "kaf", "mim", "lam", "alef", "ta",
                          " ", "waw", "alef", "lam", "dal", "ain", "alef",
                          "ya", "ta_marbuta">>] >>

\* product_types as seeded by init_db: the index is the id.
ProductTypes == <<
    [id |-> 1,  category_id |-> 1, name |-> "Hot Cups",        material |-> Some("paperboard")],
    [id |-> 2,  category_id |-> 1, name |-> "Cold Cups",       material |-> Some("plastic")],
    [id |-> 3,  category_id |-> 1, name |-> "Cup Accessories", material |-> None],
    [id |-> 4,  category_id |-> 2, name |-> "Kraft Bags",      material |-> Some("kraft")],
    [id |-> 5,  category_id |-> 2, name |-> "White Bags",      material |-> Some("white paper")],
    [id |-> 6,  category_id |-> 3, name |-> "Burger Boxes",    material |-> Some("carton")],
    [id |-> 7,  category_id |-> 3, name |-> "Wrapping Paper",  material |-> Some("wax paper")],
    [id |-> 8,  category_id |-> 3, name |-> "Pizza Boxes",     material |-> Some("corrugated")],
    [id |-> 9,  category_id |-> 4, name |-> "Cake Boxes",      material |-> Some("carton")],
    [id |-> 10, category_id |-> 4, name |-> "Ice Cream Cups",  material |-> Some("paper")],
    [id |-> 11, category_id |-> 5, name |-> "Napkins",         material |-> None],
    [id |-> 12, category_id |-> 5, name |-> "Stickers",        material |-> None] >>

Variant(type_id, name, size, size_details, variant_type, min_quantity) ==
    [type_id |-> type_id, name |-> name, size |-> Some(size),
     size_details |-> size_details, variant_type |-> variant_type,
     min_quantity |-> min_quantity]

\* product_variants as seeded by init_db (ids are assigned in insertion order).
VariantRows == <<
    Variant(1, "hot 4oz single",  "4 oz",  None, Some("single wall"), 500),
    Variant(1, "hot 8oz single",  "8 oz",  None, Some("single wall"), 500),
    Variant(1, "hot 12oz single", "12 oz", None, Some("single wall"), 500),
    Variant(1, "hot 16oz single", "16 oz", None, Some("single wall"), 500),
    Variant(1, "hot 8oz double",  "8 oz",  None, Some("double wall"), 500),
    Variant(1, "hot 12oz double", "12 oz", None, Some("double wall"), 500),
    Variant(1, "hot 16oz double", "16 oz", None, Some("double wall"), 500),
    Variant(1, "hot 8oz ripple",  "8 oz",  None, Some("ripple wall"), 500),
    Variant(1, "hot 12oz ripple", "12 oz", None, Some("ripple wall"), 500),
    Variant(1, "hot 16oz ripple", "16 oz", None, Some("ripple wall"), 500),
    Variant(2, "cold PET 12oz",   "12 oz", None, Some("PET clear"), 500),
    Variant(2, "cold PET 14oz",   "14 oz", None, Some("PET clear"), 500),
    Variant(2, "cold PET 16oz",   "16 oz", None, Some("PET clear"), 500),
    Variant(2, "cold PP 12oz",    "12 oz", None, Some("PP economy"), 500),
    Variant(2, "cold PP 14oz",    "14 oz", None, Some("PP economy"), 500),
    Variant(2, "cold PP 16oz",    "16 oz", None, Some("PP economy"), 500),
    Variant(4, "kraft small",     "small",  Some("20x10x28"), Some("twisted handle"), 500),
    Variant(4, "kraft medium",    "medium", Some("26x12x32"), Some("twisted handle"), 500),
    Variant(4, "kraft large",     "large",  Some("32x14x42"), Some("twisted handle"), 300),
    Variant(5, "white small",     "small",  Some("20x10x28"), Some("twisted handle"), 500),
    Variant(5, "white medium",    "medium", Some("26x12x32"), Some("twisted handle"), 500),
    Variant(5, "white large",     "large",  Some("32x14x42"), Some("twisted handle"), 300),
    Variant(6, "burger regular",  "regular", Some("10x10"), None, 500),
    Variant(6, "burger jumbo",    "jumbo",   Some("12x12"), None, 500),
    Variant(7, "wrap small",      "small",  Some("25x35"), None, 1000),
    Variant(7, "wrap large",      "large",  Some("30x40"), None, 1000),
    Variant(8, "pizza 25",        "small",  Some("25"), None, 200),
    Variant(8, "pizza 30",        "medium", Some("30"), None, 200),
    Variant(8, "pizza 35",        "large",  Some("35"), None, 200),
    Variant(10, "ice cream 4oz",  "4 oz",  None, None, 500),
    Variant(10, "ice cream 8oz",  "8 oz",  None, None, 500) >>

ProductVariants == [i \in 1..Len(VariantRows) |-> [id |-> i] @@ VariantRows[i]]

\* db.query(Model).get(pk): the row, or None.
GetById(rows, pk) ==
    IF pk # None /\ pk[1] \in 1..Len(rows) THEN Some(rows[pk[1]]) ELSE None

\* ---------------------------------------------------------------- seeding
\* The accessories init_db adds (name_en).
Accessories ==
    <<"Flat Lid", "Dome Lid", "Sleeve", "2-Cup Holder", "4-Cup Holder",
      "Paper Straw 6mm", "Paper Straw 10mm">>

\* The catalog tables in the order init_db fills them.
CatalogTables == <<"categories", "types", "variants", "accessories">>

\* The rows init_db adds to each table, each row by its key: the explicit
\* id of a category and of a type, the name of a variant and of an
\* accessory (their ids are assigned on insertion).
SeedRows ==
    [categories  |-> [i \in DOMAIN ProductCategories |-> ProductCategories[i].id],
     types       |-> [i \in DOMAIN ProductTypes |-> ProductTypes[i].id],
     variants    |-> [i \in DOMAIN VariantRows |-> VariantRows[i].name],
     accessories |-> Accessories]

\* The catalog after init_db ran on an empty database.
SeededCatalog == SeedRows

\* fail_at names the table whose commit raises ("none": no commit raises).
\* The index of the first table that is empty and whose commit raises, in
\* the order of CatalogTables; past the last table when there is none.
RECURSIVE FirstFailure(_, _, _)
FirstFailure(cat, fail_at, k) ==
    IF k > Len(CatalogTables) THEN k
    ELSE IF cat[CatalogTables[k]] = <<>> /\ fail_at = CatalogTables[k] THEN k
    ELSE FirstFailure(cat, fail_at, k + 1)

\* An init_db without the guards: the rows are added to every table.
init_dbUnguarded(cat, fail_at) ==
    [t \in DOMAIN cat |-> cat[t] \o SeedRows[t]]

\* init_db: for each table in turn, when the table has no row
\* (query.first() is None) its rows are added and committed; a commit that
\* raises ends the run (rollback), the tables filled before it stay filled.
init_db(cat, fail_at) ==
    LET stop == FirstFailure(cat, fail_at, 1) IN
    [t \in DOMAIN cat |->
        IF cat[t] = <<>> /\ \E k \in 1..(stop - 1) : CatalogTables[k] = t
        THEN SeedRows[t]
        ELSE cat[t]]

\* ------------------------------------------------- conversation state store
\* The columns of conversation_states (class ConversationState).
Fields == {"id", "phone_number", "current_step", "selected_category_id",
           "selected_type_id", "selected_variant_id", "selected_quantity",
           "selected_accessories", "customer_name", "notes", "last_message"}

STEPS == <<"greeting", "category", "type", "size", "variant", "quantity",
           "accessories", "confirm", "invoice">>

\* A new conversation state that starts at the category step.
NewStateAtCategory(id, phone_number) ==
    [id |-> id, phone_number |-> phone_number, current_step |-> "category",
     selected_category_id |-> None, selected_type_id |-> None,
     selected_variant_id |-> None, selected_quantity |-> None,
     selected_accessories |-> None, customer_name |-> None, notes |-> None,
     last_message |-> None]

\* ConversationState(phone_number=..., current_step="greeting") once inserted.
NewState(id, phone_number) ==
    [id |-> id, phone_number |-> phone_number, current_step |-> "greeting",
     selected_category_id |-> None, selected_type_id |-> None,
     selected_variant_id |-> None, selected_quantity |-> None,
     selected_accessories |-> None, customer_name |-> None, notes |-> None,
     last_message |-> None]

\* A lookup that filters on the wrong column, and so finds no row.
QueryStateByStep(db, phone) ==
    SelectSeq(db.conversation_states, LAMBDA r : r.current_step = phone)

\* query(ConversationState).filter(phone_number == phone): the matching rows.
QueryState(db, phone) ==
    SelectSeq(db.conversation_states, LAMBDA r : r.phone_number = phone)

RowById(rows, id) == (SelectSeq(rows, LAMBDA r : r.id = id))[1]

\* A get_or_create_state that inserts without looking the row up.
get_or_create_stateNoLookup(db, sess, phone) ==
    LET new == NewState(Len(db.conversation_states) + 1, phone) IN
    [db |-> [db EXCEPT !.conversation_states = Append(@, new)],
     sess |-> Some(new)]

\* get_or_create_state.  sess is the session's object for this row: None
\* before the session has loaded it.  A query does not overwrite the
\* attributes of an object the session already holds.
get_or_create_state(db, sess, phone) ==
    LET found == QueryState(db, phone) IN
    IF found # <<>>
    THEN [db |-> db, sess |-> IF sess # None THEN sess ELSE Some(found[1])]
    ELSE LET new == NewState(Len(db.conversation_states) + 1, phone) IN
         [db |-> [db EXCEPT !.conversation_states = Append(@, new)],
          sess |-> Some(new)]

\* A setattr loop that also rewinds the step when the step is not named.
SetAttrsRewindsStep(obj, values) ==
    [f \in Fields |-> IF f \in DOMAIN values THEN values[f]
                      ELSE IF f = "current_step" THEN "greeting" ELSE obj[f]]

\* setattr of the given attributes on the session's object.
SetAttrs(obj, values) ==
    [f \in Fields |-> IF f \in DOMAIN values THEN values[f] ELSE obj[f]]

\* A commit through which the stored snapshots follow the state: every
\* order's details lose their quantity when the state's quantity changes.
CommitStateLiveSnapshot(db, loaded, new) ==
    [conversation_states |->
        [i \in DOMAIN db.conversation_states |->
            IF db.conversation_states[i].id = loaded.id
            THEN [f \in Fields |-> IF new[f] # loaded[f] THEN new[f]
                                   ELSE db.conversation_states[i][f]]
            ELSE db.conversation_states[i]],
     orders |->
        [i \in DOMAIN db.orders |->
            IF new.selected_quantity # loaded.selected_quantity
               \/ new.current_step # loaded.current_step
            THEN [db.orders[i] EXCEPT !.order_details = [str |-> "live"]]
            ELSE db.orders[i]]]

\* db.commit(): UPDATE ... WHERE id = obj.id of the columns whose value
\* differs from the loaded one; the other columns keep what the table holds.
CommitState(db, loaded, new) ==
    [db EXCEPT !.conversation_states =
        [i \in DOMAIN @ |->
            IF @[i].id = loaded.id
            THEN [f \in Fields |-> IF new[f] # loaded[f] THEN new[f] ELSE @[i][f]]
            ELSE @[i]]]

\* commit then db.refresh(state): the object now holds the row.
CommitRefresh(db, loaded, new) ==
    LET d == CommitState(db, loaded, new) IN
    [db |-> d, sess |-> Some(RowById(d.conversation_states, loaded.id))]

\* An update_state that clears the quantity whenever it writes the step.
update_stateClearsQuantity(db, sess, phone, kwargs) ==
    LET g   == get_or_create_state(db, sess, phone)
        obj == g.sess[1]
        known == [f \in (DOMAIN kwargs) \cap Fields |-> kwargs[f]]
        set == SetAttrs(obj, known)
    IN CommitRefresh(g.db, obj,
                     IF DOMAIN kwargs = {"current_step"}
                     THEN [set EXCEPT !.selected_quantity = None] ELSE set)

\* update_state(phone, **kwargs): attributes the object does not have are
\* skipped (hasattr).
update_state(db, sess, phone, kwargs) ==
    LET g   == get_or_create_state(db, sess, phone)
        obj == g.sess[1]
        known == [f \in (DOMAIN kwargs) \cap Fields |-> kwargs[f]]
    IN CommitRefresh(g.db, obj, SetAttrs(obj, known))

\* A reset that forgets the quantity.
ResetValuesKeepQuantity ==
    [current_step |-> "greeting", selected_category_id |-> None,
     selected_type_id |-> None, selected_variant_id |-> None,
     selected_accessories |-> None, notes |-> None]

\* The attributes reset_state assigns.
ResetValues ==
    [current_step |-> "greeting", selected_category_id |-> None,
     selected_type_id |-> None, selected_variant_id |-> None,
     selected_quantity |-> None, selected_accessories |-> None,
     notes |-> None]

\* A reset that clears the table: every customer's row gets the reset values.
reset_stateEveryCustomer(db, sess, phone) ==
    LET g   == get_or_create_state(db, sess, phone)
        obj == g.sess[1]
        d   == [g.db EXCEPT !.conversation_states =
                   [i \in DOMAIN @ |-> SetAttrs(@[i], ResetValues)]]
    IN [db |-> d, sess |-> Some(RowById(d.conversation_states, obj.id))]

\* reset_state(phone).
reset_state(db, sess, phone) ==
    LET g   == get_or_create_state(db, sess, phone)
        obj == g.sess[1]
    IN CommitRefresh(g.db, obj, SetAttrs(obj, ResetValues))
\* ------------------------------------------------------------------ prompts
\* _quantity_message: min_qty = 500  # default
DefaultMinQty == 500

\* The fixed welcome script of _greeting_message.
GreetingText == "welcome script"

NoMessage == [kind |-> "None"]

TypesOf(category_id) ==
    SelectSeq(ProductTypes, LAMBDA t : category_id # None /\ t.category_id = category_id[1])

VariantsOf(type_id) ==
    SelectSeq(ProductVariants, LAMBDA v : type_id # None /\ v.type_id = type_id[1])

\* The distinct sizes of the variants, first occurrence first, each with the
\* size details of the first variant that has it.
RECURSIVE DistinctSizes(_, _)
DistinctSizes(variants, seen) ==
    IF variants = <<>> THEN <<>>
    ELSE LET v == Head(variants) IN
         IF TruthyStr(v.size) /\ v.size[1] \notin seen
         THEN <<[size |-> v.size[1], details |-> v.size_details]>>
              \o DistinctSizes(Tail(variants), seen \cup {v.size[1]})
         ELSE DistinctSizes(Tail(variants), seen)

_greeting_message == [kind |-> "greeting", text |-> GreetingText]

_category_message ==
    [kind |-> "category",
     categories |-> [i \in 1..Len(ProductCategories) |-> ProductCategories[i].id]]

_type_message(category_id) ==
    LET types == TypesOf(category_id) IN
    IF types = <<>> THEN [kind |-> "no_products"]
    ELSE [kind |-> "type", types |-> [i \in 1..Len(types) |-> types[i].id]]

_size_message(type_id) ==
    LET sizes == DistinctSizes(VariantsOf(type_id), {}) IN
    IF sizes = <<>> THEN [kind |-> "ask_size"]
    ELSE [kind |-> "size", sizes |-> sizes]

\* The variant kinds are collected in a set; None when there is none (skip).
_variant_message(type_id) ==
    LET variants == VariantsOf(type_id)
        variant_types == {variants[i].variant_type[1] :
                            i \in {j \in 1..Len(variants) :
                                     TruthyStr(variants[j].variant_type)}}
    IN IF variant_types = {} THEN NoMessage
       ELSE [kind |-> "variant", variant_types |-> variant_types]

_quantity_message(state) ==
    LET variant == IF TruthyInt(state.selected_variant_id)
                   THEN GetById(ProductVariants, state.selected_variant_id)
                   ELSE None
    IN [kind |-> "quantity",
        min_qty |-> IF variant # None THEN variant[1].min_quantity ELSE DefaultMinQty]

\* build_final_summary: the lines of the summary that are present.
build_final_summary(state) ==
    LET category == IF TruthyInt(state.selected_category_id)
                    THEN GetById(ProductCategories, state.selected_category_id)
                    ELSE None
        ptype    == IF TruthyInt(state.selected_type_id)
                    THEN GetById(ProductTypes, state.selected_type_id) ELSE None
        variant  == IF TruthyInt(state.selected_variant_id)
                    THEN GetById(ProductVariants, state.selected_variant_id)
                    ELSE None
    IN [category |-> IF category # None THEN Some(category[1].name) ELSE None,
        type     |-> IF ptype # None
                     THEN Some([name |-> ptype[1].name, material |-> ptype[1].material])
                     ELSE None,
        variant  |-> IF variant # None THEN Some(variant[1].name) ELSE None,
        size     |-> IF variant = None THEN None
                     ELSE IF TruthyStr(variant[1].size_details)
                          THEN variant[1].size_details
                          ELSE IF TruthyStr(variant[1].size) THEN variant[1].size
                               ELSE None,
        variant_type |-> IF variant # None /\ TruthyStr(variant[1].variant_type)
                         THEN variant[1].variant_type ELSE None,
        quantity |-> IF TruthyInt(state.selected_quantity)
                     THEN state.selected_quantity ELSE None,
        accessories |-> IF TruthySeq(state.selected_accessories)
                        THEN state.selected_accessories ELSE None,
        notes    |-> IF TruthyStr(state.notes) THEN state.notes ELSE None]

_confirm_message(state) == [kind |-> "confirm", summary |-> build_final_summary(state)]

generate_step_message(state) ==
    CASE state.current_step = "greeting" -> _greeting_message
      [] state.current_step = "category" -> _category_message
      [] state.current_step = "type"     -> _type_message(state.selected_category_id)
      [] state.current_step = "size"     -> _size_message(state.selected_type_id)
      [] state.current_step = "variant"  -> _variant_message(state.selected_type_id)
      [] state.current_step = "quantity" -> _quantity_message(state)
      [] state.current_step = "confirm"  -> _confirm_message(state)
      [] OTHER -> [kind |-> "how_can_i_help"]

\* The variant kinds of the catalog.  The order in which Python iterates a
\* set of str follows the strings' hashes, which change with the hash seed
\* of the process: under seed_a the kinds come in the order of this list,
\* under seed_b in the reverse order.
VariantKinds ==
    <<"single wall", "double wall", "ripple wall", "PET clear", "PP economy",
      "twisted handle">>

HashSeeds == {"seed_a", "seed_b"}

\* for vt in variant_types: the members of the set in the process's order.
SetOrder(S, seed) ==
    LET listed == SelectSeq(VariantKinds, LAMBDA k : k \in S) IN
    IF seed = "seed_a" THEN listed
    ELSE [i \in 1..Len(listed) |-> listed[Len(listed) + 1 - i]]

\* The text generate_step_message returns in a process of the given hash
\* seed: the variant prompt numbers the kinds in the set's iteration order.
StepMessageText(state, seed) ==
    LET m == generate_step_message(state) IN
    IF m.kind = "variant"
    THEN [kind |-> "variant", lines |-> SetOrder(m.variant_types, seed)]
    ELSE m

\* ------------------------------------------------------ order materializer
\* A Python value that is a str, and one that is a dict.
PyStr(s) == [str |-> s]

PyDict(d) == [dict |-> d]

IsDict(x) == "dict" \in DOMAIN x

\* get_order_summary.  With a category selected, the function returns at
\* line 344, before the variant is looked up: what it returns there is the
\* welcome text, a str, not the result dict.
get_order_summary(state) ==
    IF TruthyInt(state.selected_category_id)
    THEN PyStr(GreetingText)
    ELSE LET variant == IF TruthyInt(state.selected_variant_id)
                        THEN GetById(ProductVariants, state.selected_variant_id)
                        ELSE None
         IN PyDict([category |-> None,
                    type |-> None,
                    variant |-> IF variant # None
                                THEN Some([name |-> variant[1].name,
                                           size |-> variant[1].size,
                                           size_details |-> variant[1].size_details,
                                           variant_type |-> variant[1].variant_type,
                                           min_quantity |-> variant[1].min_quantity])
                                ELSE None,
                    quantity |-> state.selected_quantity,
                    accessories |-> state.selected_accessories,
                    customer_name |-> state.customer_name])

\* An order inserted as a priced, paid order of status New.
NewOrderPaid(id, state, summary) ==
    [id |-> id,
     customer_phone |-> state.phone_number,
     customer_name |-> "unnamed customer",
     business_name |-> None,
     order_details |-> summary,
     total_amount |-> Some(0),
     invoice_path |-> None,
     status |-> "New",
     has_capacity |-> None,
     approved_amount |-> None,
     estimated_days |-> None,
     payment_url |-> None,
     payment_status |-> "Paid",
     paid_at |-> None,
     notes |-> None]

\* Order(...) of create_order_from_state, with the column defaults of class
\* Order for the columns it does not name.
NewOrder(id, state, summary) ==
    [id |-> id,
     customer_phone |-> state.phone_number,
     customer_name |-> IF TruthyStr(state.customer_name)
                       THEN state.customer_name[1] ELSE "unnamed customer",
     business_name |-> None,
     order_details |-> summary,
     total_amount |-> None,
     invoice_path |-> None,
     status |-> "PendingApproval",
     has_capacity |-> None,
     approved_amount |-> None,
     estimated_days |-> None,
     payment_url |-> None,
     payment_status |-> "Pending",
     paid_at |-> None,
     notes |-> None]

\* A persist step whose failed commit leaves the added row in the table.
PersistOrderKeepsAddedRow(db, order, commit_ok) ==
    [db |-> [db EXCEPT !.orders = Append(@, order)], raised |-> ~commit_ok]

\* db.add(order); db.commit(): the row is in the table when the commit
\* succeeds; when the commit raises, the INSERT is not committed and the
\* exception goes to the caller.
PersistOrder(db, order, commit_ok) ==
    IF commit_ok
    THEN [db |-> [db EXCEPT !.orders = Append(@, order)], raised |-> FALSE]
    ELSE [db |-> db, raised |-> TRUE]

\* A materializer that keeps one order per customer: it writes the new
\* order over the customer's latest one.
create_order_from_stateOverwrites(db, state, commit_ok) ==
    LET n     == IF db.orders = <<>> THEN 1 ELSE Len(db.orders)
        order == NewOrder(n, state, get_order_summary(state)) IN
    [db |-> [db EXCEPT !.orders = IF @ = <<>> THEN <<order>>
                                  ELSE [@ EXCEPT ![n] = order]],
     order |-> order, raised |-> FALSE]

\* create_order_from_state: the order row is added and committed; the
\* conversation state is not touched.  commit_ok: db.commit() succeeds.
create_order_from_state(db, state, commit_ok) ==
    LET order == NewOrder(Len(db.orders) + 1, state, get_order_summary(state))
        p     == PersistOrder(db, order, commit_ok) IN
    [db |-> p.db, order |-> order, raised |-> p.raised]

\* ------------------------------------------------------- order operations
\* db.query(Order).get(order_id)
GetOrder(db, order_id) == SelectSeq(db.orders, LAMBDA o : o.id = order_id)

\* The orders with the row of the given id replaced by `order`.
PutOrder(db, order) ==
    [db EXCEPT !.orders = [i \in DOMAIN @ |-> IF @[i].id = order.id THEN order ELSE @[i]]]

\* set_management_decision: the order of the given id, whatever its status,
\* gets the decision; ValueError when there is no such order.
set_management_decision(db, order_id, has_capacity, approved_amount, estimated_days) ==
    LET found == GetOrder(db, order_id) IN
    IF found = <<>>
    THEN [db |-> db, order |-> None, raised |-> TRUE]
    ELSE LET order == IF ~has_capacity
                      THEN [found[1] EXCEPT !.has_capacity = Some(has_capacity),
                                            !.status = "RejectedNoCapacity"]
                      ELSE [found[1] EXCEPT !.has_capacity = Some(has_capacity),
                                            !.approved_amount = approved_amount,
                                            !.estimated_days = estimated_days,
                                            !.total_amount = approved_amount,
                                            !.status = "ApprovedWaitingPayment"]
         IN [db |-> PutOrder(db, order), order |-> Some(order), raised |-> FALSE]

\* create_payment_link, for the order of the given id; an order that was
\* not persisted has no id.
create_payment_link(db, order_id) ==
    LET found == GetOrder(db, order_id) IN
    IF found = <<>>
    THEN [db |-> db, order |-> None, raised |-> TRUE]
    ELSE LET order == [found[1] EXCEPT !.payment_url = Some(<<"pay", order_id>>),
                                       !.payment_status = "Pending"]
         IN [db |-> PutOrder(db, order), order |-> Some(order), raised |-> FALSE]

\* A payment confirmation that also writes the amount paid as the total.
mark_order_paidSetsTotal(db, order_id) ==
    LET found == GetOrder(db, order_id) IN
    IF found = <<>>
    THEN [db |-> db, order |-> None, raised |-> TRUE]
    ELSE LET order == [found[1] EXCEPT !.payment_status = "Paid",
                                       !.status = "Paid",
                                       !.total_amount = Some(0),
                                       !.paid_at = Some("utcnow")]
         IN [db |-> PutOrder(db, order), order |-> Some(order), raised |-> FALSE]

\* mark_order_paid: the order of the given id, whatever its status.
mark_order_paid(db, order_id) ==
    LET found == GetOrder(db, order_id) IN
    IF found = <<>>
    THEN [db |-> db, order |-> None, raised |-> TRUE]
    ELSE LET order == [found[1] EXCEPT !.payment_status = "Paid",
                                       !.status = "Paid",
                                       !.paid_at = Some("utcnow")]
         IN [db |-> PutOrder(db, order), order |-> Some(order), raised |-> FALSE]

\* ------------------------------------------------------------- the turn
\* The fixed texts process_message_task sends.
OrderReceivedText == [kind |-> "order_received"]

CancelledText == [kind |-> "order_cancelled"]

ErrorText == [kind |-> "apology_restart_hint"]

AiText(text) == [kind |-> "ai", text |-> text]

\* A lookup that guesses the first category when the name matches none.
FindCategoryOrFirst(pattern) ==
    LET found == SelectSeq(ProductCategories, LAMBDA c : Like(c.name, pattern)) IN
    IF found # <<>> THEN found ELSE ProductCategories

\* db.query(ProductCategory).filter(name.like("%..%")).first()
FindCategory(pattern) ==
    SelectSeq(ProductCategories, LAMBDA c : Like(c.name, pattern))

\* A create_invoice whose Order(...) is accepted: the order row is added.
create_invoiceAddsOrder(db, customer_name, customer_phone, product_name, price) ==
    [db |-> [db EXCEPT !.orders =
                Append(@, [id |-> Len(db.orders) + 1,
                           customer_phone |-> customer_phone,
                           customer_name |-> "customer",
                           business_name |-> None,
                           order_details |-> None,
                           total_amount |-> Some(price),
                           invoice_path |-> Some("invoice.pdf"),
                           status |-> "New",
                           has_capacity |-> None,
                           approved_amount |-> None,
                           estimated_days |-> None,
                           payment_url |-> None,
                           payment_status |-> "Pending",
                           paid_at |-> None,
                           notes |-> None])],
     raised |-> FALSE]

\* create_invoice: the PDF is written, then Order(product_name=...) raises
\* TypeError, since class Order has no such attribute: nothing is added.
create_invoice(db, customer_name, customer_phone, product_name, price) ==
    [db |-> db, raised |-> TRUE]

\* What a step of a turn leaves: the database, the session's object, the
\* branch taken, the messages sent and the chat log rows written.
Outcome(db, sess, branch, sent, logs) ==
    [db |-> db, sess |-> sess, branch |-> branch, sent |-> sent, logs |-> logs]

\* process_message_task, lines 59-98: up to the call of analyze_message.
\* commit_ok: the commit of create_order_from_state succeeds.  When it
\* raises, the except clause of lines 179-192 sends the apology.
TurnStartEffect(db, phone, msg, commit_ok) ==
    LET g          == get_or_create_state(db, None, phone)
        state      == g.sess[1]
        normalized == Normalize(msg)
    IN IF normalized \in ResetCommands
       THEN LET r == reset_state(g.db, g.sess, phone) IN
            Outcome(r.db, r.sess, "reset", <<generate_step_message(r.sess[1])>>, <<>>)
       ELSE IF state.current_step = "confirm" /\ normalized \in AffirmWords
       THEN LET c == create_order_from_state(g.db, state, commit_ok) IN
            IF c.raised
            THEN Outcome(c.db, g.sess, "persist_failed", <<ErrorText>>, <<>>)
            ELSE Outcome(c.db, g.sess, "confirm_ok", <<OrderReceivedText>>, <<>>)
       ELSE IF state.current_step = "confirm" /\ normalized \in EditWords
       THEN LET u == update_state(g.db, g.sess, phone, [current_step |-> "quantity"]) IN
            Outcome(u.db, u.sess, "edit", <<generate_step_message(u.sess[1])>>, <<>>)
       ELSE IF state.current_step = "confirm" /\ normalized \in ConfirmCancelWords
       THEN LET r == reset_state(g.db, g.sess, phone) IN
            Outcome(r.db, r.sess, "confirm_cancel", <<CancelledText>>, <<>>)
       ELSE Outcome(g.db, g.sess, "await", <<>>, <<>>)

\* A merge that also selects the first type of the category and moves to
\* the size step.
MergeCategorySelectsType(db, sess, phone, data) ==
    IF TruthySeq(data.category) /\ FindCategory(data.category[1]) # <<>>
    THEN update_state(db, sess, phone,
                      [selected_category_id |-> Some(FindCategory(data.category[1])[1].id),
                       selected_type_id |->
                           Some(TypesOf(Some(FindCategory(data.category[1])[1].id))[1].id),
                       current_step |-> "size"])
    ELSE [db |-> db, sess |-> sess]

\* Lines 107-118: the extracted category.
MergeCategory(db, sess, phone, data) ==
    IF TruthySeq(data.category) /\ FindCategory(data.category[1]) # <<>>
    THEN update_state(db, sess, phone,
                      [selected_category_id |-> Some(FindCategory(data.category[1])[1].id),
                       current_step |-> "type"])
    ELSE [db |-> db, sess |-> sess]

\* The quantity merged with a step name that STEPS does not have.
MergeQuantityConfirmed(db, sess, phone, data) ==
    IF TruthyInt(data.quantity)
    THEN update_state(db, sess, phone,
                      [selected_quantity |-> data.quantity, current_step |-> "confirmed"])
    ELSE [db |-> db, sess |-> sess]

\* Lines 120-124: the extracted quantity.
MergeQuantity(db, sess, phone, data) ==
    IF TruthyInt(data.quantity)
    THEN update_state(db, sess, phone,
                      [selected_quantity |-> data.quantity, current_step |-> "confirm"])
    ELSE [db |-> db, sess |-> sess]

\* process_message_task, lines 104-195: from the result of analyze_message on.
\* log_ok: the commit of the two ChatLog rows (line 175) succeeds.  When it
\* raises, the response is already sent and the except clause sends the
\* apology after it; the rows are not written.
TurnResumeEffect(db, sess, phone, msg, result, log_ok) ==
    LET data    == result.data
        m1      == MergeCategory(db, sess, phone, data)
        m2      == MergeQuantity(m1.db, m1.sess, phone, data)
        state   == m2.sess[1]
        summary == get_order_summary(state)
        failed  == Outcome(m2.db, m2.sess, "error", <<ErrorText>>, <<>>)
        reply(r, text) ==
            LET response_text == IF text = "" THEN generate_step_message(r.sess[1])
                                 ELSE AiText(text)
            IN IF log_ok
               THEN Outcome(r.db, r.sess, "interpreted", <<response_text>>,
                       <<[message_type |-> "incoming", message_content |-> msg,
                          intent |-> Some(data.intent)],
                         [message_type |-> "outgoing", message_content |-> response_text,
                          intent |-> None]>>)
               ELSE Outcome(r.db, r.sess, "log_failed", <<response_text, ErrorText>>, <<>>)
    IN IF ~data.ready_for_invoice THEN reply(m2, result.response)
       ELSE IF ~IsDict(summary) THEN failed
       ELSE IF summary.dict.variant # None /\ TruthyInt(state.selected_quantity)
       THEN LET inv == create_invoice(m2.db, state.customer_name, phone,
                                      summary.dict.variant[1].name, 0) IN
            IF inv.raised THEN failed
            ELSE reply(reset_state(inv.db, m2.sess, phone), "invoice issued")
       ELSE reply(m2, result.response)

\* ------------------------------------------------------ keyword fallback
\* word in message_lower, for some word of the list.
AnyWordIn(words, text) == \E w \in words : Like(text, w)

Digits == <<"0", "1", "2", "3", "4", "5", "6", "7", "8", "9">>

IsDigit(c) == \E i \in 1..Len(Digits) : Digits[i] = c

DigitValue(c) == (CHOOSE i \in 1..Len(Digits) : Digits[i] = c) - 1

\* int() of a run of digits.
RECURSIVE ToInt(_)
ToInt(run) ==
    IF run = <<>> THEN 0
    ELSE 10 * ToInt(SubSeq(run, 1, Len(run) - 1)) + DigitValue(run[Len(run)])

\* re.search(r'(\d+)...'): the leftmost longest run of digits, None without one.
FirstNumber(text) ==
    IF \A i \in 1..Len(text) : ~IsDigit(text[i]) THEN None
    ELSE LET first == CHOOSE i \in 1..Len(text) :
                        IsDigit(text[i]) /\ \A j \in 1..(i - 1) : ~IsDigit(text[j])
             last_ == CHOOSE k \in first..Len(text) :
                        /\ \A j \in first..k : IsDigit(text[j])
                        /\ (k = Len(text) \/ ~IsDigit(text[k + 1]))
         IN Some(ToInt(SubSeq(text, first, last_)))

GreetingWords ==
    {<<"mim", "ra", "hah", "ba">>,
     <<"alef", "lam", "sin", "lam", "alef", "mim">>,
     <<"sad", "ba", "alef", "hah">>,
     <<"mim", "sin", "alef", "hamza">>,
     <<"heh", "lam", "alef">>,
     <<"alef_hamza", "heh", "lam", "alef">>,
     <<"heh", "alef", "ya">>,
     <<"h", "e", "l", "l", "o">>}

CupWords ==
    {<<"kaf", "waw", "ba">>,
     <<"alef", "kaf", "waw", "alef", "ba">>,
     <<"alef_hamza", "kaf", "waw", "alef", "ba">>,
     <<"c", "u", "p">>}

BagWords ==
    {<<"kaf", "ya", "sin">>,
     <<"alef", "kaf", "ya", "alef", "sin">>,
     <<"alef_hamza", "kaf", "ya", "alef", "sin">>,
     <<"b", "a", "g">>}

BoxWords ==
    {<<"ain", "lam", "ba">>,
     <<"ain", "lam", "ba", "ta_marbuta">>,
     <<"ba", "ra", "jim", "ra">>,
     <<"ba", "ya", "ta", "zain", "alef">>,
     <<"b", "o", "x">>}

BakeryWords ==
    {<<"kaf", "ya", "kaf">>,
     <<"hah", "lam", "waw">>,
     <<"alef", "ya", "sin", " ", "kaf", "ra", "ya", "mim">>,
     <<"c", "a", "k", "e">>}

FallbackCups == <<"alef_hamza", "kaf", "waw", "alef", "ba">>

FallbackBags == <<"alef_hamza", "kaf", "ya", "alef", "sin">>

FallbackBoxes == <<"ain", "lam", "ba">>

FallbackBakery == <<"hah", "lam", "waw", "ya", "alef", "ta">>

NoCategory == <<"n", "o", "n", "e">>

\* The sizes dict, in its order: the first key found in the message decides.
SizeKeys ==
    << [key |-> <<"sad", "ghain", "ya", "ra">>, value |-> "small"],
       [key |-> <<"waw", "sin", "tah">>, value |-> "medium"],
       [key |-> <<"kaf", "ba", "ya", "ra">>, value |-> "large"],
       [key |-> <<"4">>, value |-> "4 oz"],
       [key |-> <<"8">>, value |-> "8 oz"],
       [key |-> <<"1", "2">>, value |-> "12 oz"],
       [key |-> <<"1", "6">>, value |-> "16 oz"] >>

FallbackSize(text) ==
    LET hits == SelectSeq(SizeKeys, LAMBDA e : Like(text, e.key)) IN
    IF hits = <<>> THEN None ELSE Some(hits[1].value)

FallbackVariant(text) ==
    IF Like(text, <<"dal", "ba", "lam">>) \/ Like(text, <<"mim", "zain", "dal", "waw", "jim">>)
    THEN Some("double wall")
    ELSE IF Like(text, <<"sin", "nun", "jim", "lam">>) \/ Like(text, <<"waw", "alef", "hah", "dal">>) \/ Like(text, <<"ain", "alef", "dal", "ya">>)
    THEN Some("single wall")
    ELSE IF Like(text, <<"mim", "mim", "waw", "jim">>) THEN Some("corrugated wall")
    ELSE None

\* fallback_intent_detection: a key of extracted_info that is absent is None.
fallback_intent_detection(message) ==
    LET message_lower == Lower(message)
        category == IF AnyWordIn(CupWords, message_lower) THEN FallbackCups
                    ELSE IF AnyWordIn(BagWords, message_lower) THEN FallbackBags
                    ELSE IF AnyWordIn(BoxWords, message_lower) THEN FallbackBoxes
                    ELSE IF AnyWordIn(BakeryWords, message_lower) THEN FallbackBakery
                    ELSE NoCategory
    IN IF AnyWordIn(GreetingWords, message_lower)
       THEN [intent |-> "greeting", product_category |-> NoCategory,
             extracted_info |-> [size |-> None, variant |-> None, quantity |-> None]]
       ELSE [intent |-> IF category # NoCategory THEN "inquiry" ELSE "other",
             product_category |-> category,
             extracted_info |-> [size |-> FallbackSize(message_lower),
                                 variant |-> FallbackVariant(message_lower),
                                 quantity |-> FirstNumber(message_lower)]]

\* ------------------------------------------------------------------ inputs
\* Inbound message bodies: a reset command in mixed case with blanks, a
\* local reset command, "restart" (in no vocabulary: free text), an
\* affirmative word in upper case, the edit word, the cancellation word of
\* the confirm step only.
M_cancel  == <<" ", "C", "a", "n", "c", "e", "l", " ">>
M_bidaya  == W_bidaya
M_restart == <<"r","e","s","t","a","r","t">>
M_ok      == <<"O", "K">>
M_edit    == W_edit
M_alghaa  == W_alghaa

Messages == {M_cancel, M_bidaya, M_restart, M_ok, M_edit, M_alghaa}

\* A free text with keywords of the keyword fallback: a category word and a
\* number.
M_cups_1000 == <<"C", "u", "p", "s", " ", "1", "0", "0", "0">>

FallbackMessages == {M_cups_1000, M_restart, M_ok}

\* Category names the interpretation may extract: two that match a catalog
\* category and one that matches none.
CatCups    == <<"alef_hamza", "kaf", "waw", "alef", "ba">>
CatBags    == <<"alef_hamza", "kaf", "ya", "alef", "sin">>
CatUnknown == <<"kaf", "waw", "ba">>

Data(intent, category, quantity, ready) ==
    [intent |-> intent, category |-> category, quantity |-> quantity,
     ready_for_invoice |-> ready]

\* analyze_message's except branch: the fixed response and intent = error.
AnalyzeFailed ==
    [response |-> "sorry, an error occurred", data |-> Data("error", None, None, FALSE)]

\* What the chat completion call inside analyze_message does: it raises, or
\* it returns a text that carries no JSON marker, a marker followed by text
\* json.loads rejects, or a marker followed by a JSON object.
ApiRaised == [raised |-> TRUE]

ApiReply(text, kind, data) ==
    [raised |-> FALSE, text |-> text, json |-> [kind |-> kind, data |-> data]]

NoData == Data("other", None, None, FALSE)

ApiOutcomes ==
    { ApiRaised,
      ApiReply("",   "absent", NoData),
      ApiReply("",   "malformed", NoData),
      ApiReply("",   "object", Data("product_selection", Some(CatCups), None, FALSE)),
      ApiReply("ai", "object", Data("product_selection", Some(CatBags), None, FALSE)),
      ApiReply("",   "object", Data("product_selection", Some(CatUnknown), None, FALSE)),
      ApiReply("",   "object", Data("quantity_selection", None, Some(1000), FALSE)),
      ApiReply("ai", "object", Data("quantity_selection", None, Some(5000), FALSE)),
      ApiReply("",   "object", Data("quantity_selection", Some(CatCups), Some(1000), FALSE)),
      ApiReply("ai", "object", Data("confirmation", None, None, TRUE)) }

\* An analyze_message whose except branch guesses a quantity.
analyze_messageGuessesQuantity(api) ==
    IF api.raised
    THEN [response |-> "sorry, an error occurred",
          data |-> Data("error", None, Some(1000), FALSE)]
    ELSE IF api.json.kind = "object"
    THEN [response |-> api.text, data |-> api.json.data]
    ELSE [response |-> api.text, data |-> NoData]

\* analyze_message: everything is inside one try; except Exception returns
\* the fixed result.  Without a marker, or with a marker and text that
\* json.loads rejects, the data is {"intent": "other"}.
analyze_message(api) ==
    IF api.raised
    THEN AnalyzeFailed
    ELSE IF api.json.kind = "object"
    THEN [response |-> api.text, data |-> api.json.data]
    ELSE [response |-> api.text, data |-> NoData]

\* What analyze_message may return.
Results == { analyze_message(api) : api \in ApiOutcomes }

\* Keyword arguments of direct calls of update_state.
UpdateInputs ==
    { [selected_category_id |-> Some(1), selected_type_id |-> Some(1),
       selected_variant_id |-> Some(5), selected_quantity |-> Some(1000),
       current_step |-> "confirm"],
      [selected_variant_id |-> Some(5), selected_quantity |-> Some(1000),
       current_step |-> "confirm"],
      [customer_name |-> Some("Khalid"), notes |-> Some("red ribbon"),
       selected_accessories |-> Some(<<[id |-> 1, qty |-> 500]>>)],
      [current_step |-> "variant", selected_type_id |-> Some(10)],
      [no_such_field |-> Some(1)] }

\* Order ids the external callers pass: the first two orders and an id no
\* order has.
OrderIds == {1, 2, 9}

\* Management decisions: has_capacity, approved_amount, estimated_days.
Decisions ==
    { [has_capacity |-> TRUE,  approved_amount |-> Some(150), estimated_days |-> Some(3)],
      [has_capacity |-> TRUE,  approved_amount |-> Some(200), estimated_days |-> Some(5)],
      [has_capacity |-> FALSE, approved_amount |-> None,      estimated_days |-> None] }

\* The inputs of the turns that lead to orders: the affirmative word, a
\* free text, an interpretation with a quantity, one that says the order is
\* complete, and a direct store call that selects a variant.
OrderMessages == {M_ok, M_restart}

OrderResults ==
    { analyze_message(ApiReply("", "object",
                               Data("quantity_selection", None, Some(1000), FALSE))),
      analyze_message(ApiReply("ai", "object", Data("confirmation", None, None, TRUE))) }

OrderUpdateInputs ==
    { [selected_variant_id |-> Some(5), selected_quantity |-> Some(1000),
       current_step |-> "confirm"] }

\* Two customers, and the inputs of their turns: a reset command, the
\* affirmative word, and interpretations with a category and with a quantity.
TwoPhones == {"p1", "p2"}

IsolationMessages == {M_bidaya, M_ok}

IsolationResults ==
    { analyze_message(ApiReply("", "object",
                               Data("product_selection", Some(CatCups), None, FALSE))),
      analyze_message(ApiReply("", "object",
                               Data("quantity_selection", None, Some(1000), FALSE))) }

\* The inputs of the turns in which the order is persisted: the affirmative
\* word, and an interpretation with a quantity, which takes the state to
\* step confirm.
PersistMessages == {M_ok, M_restart}

PersistResults ==
    { analyze_message(ApiReply("", "object",
                               Data("quantity_selection", None, Some(1000), FALSE))),
      analyze_message(ApiReply("ai", "absent", NoData)) }

\* What a catalog table may hold before init_db runs: nothing, the rows of
\* an earlier run, or one row that somebody else added.
TableContents(t) ==
    {<<>>, SeedRows[t], IF t \in {"categories", "types"} THEN <<99>> ELSE <<"custom">>}

Catalogs ==
    [categories  : TableContents("categories"),
     types       : TableContents("types"),
     variants    : TableContents("variants"),
     accessories : TableContents("accessories")]

\* The table whose commit raises in a run of init_db, or none.
SeedFailures == {"none", "categories", "types", "variants", "accessories"}

\* A greeting, and what analyze_message may return for it: a reply text
\* with or without the JSON part, an empty reply, or the failure result.
M_hello == <<"h", "e", "l", "l", "o">>

GreetingMessages == {M_hello, M_bidaya}

GreetingResults ==
    { analyze_message(ApiReply("ai", "object", Data("greeting", None, None, FALSE))),
      analyze_message(ApiReply("ai", "absent", NoData)),
      analyze_message(ApiReply("", "absent", NoData)),
      analyze_message(ApiRaised) }

\* Conversation states for which a prompt is generated: every step (and a
\* step name STEPS does not have), with and without a category, a type
\* with variant kinds, and a type without.
PromptStates ==
    { [NewState(1, "p1") EXCEPT !.current_step = step,
                                !.selected_category_id = c,
                                !.selected_type_id = t,
                                !.selected_quantity = q] :
        step \in {STEPS[i] : i \in 1..Len(STEPS)} \cup {"done"},
        c \in {None, Some(1)}, t \in {None, Some(1), Some(2), Some(10)},
        q \in {None, Some(1000)} }

\* ------------------------------------------------------------------- state
DB == [conversation_states |-> conversation_states, orders |-> orders]

\* What the last operation was, the store it found (pre; pre_catalog for a
\* run of init_db and a call of generate_step_message; prev: what the call
\* of generate_step_message before this one returned), what it emitted,
\* what it returned and, for the second step of a turn, the interpretation
\* it received (result).
NoOp == [op |-> "none", phone |-> "", msg |-> <<>>, branch |-> "", sent |-> <<>>,
         logs |-> <<>>, ret |-> None, result |-> None,
         pre |-> [conversation_states |-> <<>>, orders |-> <<>>],
         pre_catalog |-> None, prev |-> None, kwargs |-> None]

\* History of the turns that overlap: the store found by the first of them
\* (base), how many turns began (n) and, for each turn that ended, its
\* message and the interpretation it received (None when it consulted none).
\* A direct store call between them, or a third turn, voids the
\* history.
NoWin == [state |-> "none", base |-> [conversation_states |-> <<>>, orders |-> <<>>],
          n |-> 0, done |-> <<>>]

VoidWin == [NoWin EXCEPT !.state = "void"]

Init ==
    /\ conversation_states = <<>>
    /\ orders = <<>>
    /\ tasks = <<>>
    /\ last = NoOp
    /\ win = NoWin
    /\ nturns = 0
    /\ ncalls = 0
    /\ catalog = SeededCatalog
    /\ hashseed = "seed_a"

RemoveAt(s, i) == SubSeq(s, 1, i - 1) \o SubSeq(s, i + 1, Len(s))

\* bot_endpoint hands the message to process_message_task, which runs to its
\* first suspension point or to its end.
TurnStart(phone, msg, commit_ok) ==
    /\ nturns < MaxTurns
    /\ \E o \in {TurnStartEffect(DB, phone, msg, commit_ok)} :
       /\ conversation_states' = o.db.conversation_states
       /\ orders' = o.db.orders
       /\ tasks' = IF o.branch = "await"
                   THEN Append(tasks, [phone |-> phone, msg |-> msg, sess |-> o.sess])
                   ELSE tasks
       /\ last' = [op |-> "turn_start", phone |-> phone, msg |-> msg,
                   branch |-> o.branch, sent |-> o.sent, logs |-> o.logs,
                   ret |-> None, result |-> None, pre |-> DB,
                   pre_catalog |-> None, prev |-> None, kwargs |-> None]
       /\ win' = LET ended == [phone |-> phone, msg |-> msg, result |-> None] IN
                 IF tasks = <<>>
                 THEN IF o.branch = "await"
                      THEN [state |-> "open", base |-> DB, n |-> 1, done |-> <<>>]
                      ELSE NoWin
                 ELSE IF win.state = "open" /\ win.n < 2
                 THEN [win EXCEPT !.n = @ + 1,
                                  !.done = IF o.branch = "await" THEN @
                                           ELSE Append(@, ended)]
                 ELSE VoidWin
    /\ nturns' = nturns + 1
    /\ UNCHANGED <<ncalls, catalog, hashseed>>

\* analyze_message returns and the turn runs to its end.
TurnResume(i, result, log_ok) ==
    /\ i \in 1..Len(tasks)
    /\ \E o \in {TurnResumeEffect(DB, tasks[i].sess, tasks[i].phone, tasks[i].msg,
                                   result, log_ok)} :
       /\ conversation_states' = o.db.conversation_states
       /\ orders' = o.db.orders
       /\ last' = [op |-> "turn_resume", phone |-> tasks[i].phone, msg |-> tasks[i].msg,
                   branch |-> o.branch, sent |-> o.sent, logs |-> o.logs,
                   ret |-> None, result |-> Some(result), pre |-> DB,
                   pre_catalog |-> None, prev |-> None, kwargs |-> None]
    /\ win' = IF win.state = "open"
              THEN [win EXCEPT !.done = Append(@, [phone |-> tasks[i].phone,
                                                   msg |-> tasks[i].msg,
                                                   result |-> Some(result)])]
              ELSE win
    /\ tasks' = RemoveAt(tasks, i)
    /\ UNCHANGED <<nturns, ncalls, catalog, hashseed>>

\* A call of get_or_create_state in a session of its own (as test_message does).
GetOrCreateCall(phone) ==
    /\ ncalls < MaxCalls
    /\ \E g \in {get_or_create_state(DB, None, phone)} :
       /\ conversation_states' = g.db.conversation_states
       /\ orders' = g.db.orders
       /\ last' = [NoOp EXCEPT !.op = "get_or_create_state", !.phone = phone,
                               !.ret = g.sess, !.pre = DB]
    /\ win' = IF tasks = <<>> THEN NoWin ELSE VoidWin
    /\ ncalls' = ncalls + 1
    /\ UNCHANGED <<tasks, nturns, catalog, hashseed>>

\* A call of update_state in a session of its own.
UpdateStateCall(phone, kwargs) ==
    /\ ncalls < MaxCalls
    /\ \E u \in {update_state(DB, None, phone, kwargs)} :
       /\ conversation_states' = u.db.conversation_states
       /\ orders' = u.db.orders
       /\ last' = [NoOp EXCEPT !.op = "update_state", !.phone = phone, !.ret = u.sess,
                               !.pre = DB, !.kwargs = Some(kwargs)]
    /\ win' = IF tasks = <<>> THEN NoWin ELSE VoidWin
    /\ ncalls' = ncalls + 1
    /\ UNCHANGED <<tasks, nturns, catalog, hashseed>>

\* A call of reset_state in a session of its own.
ResetStateCall(phone) ==
    /\ ncalls < MaxCalls
    /\ \E r \in {reset_state(DB, None, phone)} :
       /\ conversation_states' = r.db.conversation_states
       /\ orders' = r.db.orders
       /\ last' = [NoOp EXCEPT !.op = "reset_state", !.phone = phone, !.ret = r.sess,
                               !.pre = DB]
    /\ win' = IF tasks = <<>> THEN NoWin ELSE VoidWin
    /\ ncalls' = ncalls + 1
    /\ UNCHANGED <<tasks, nturns, catalog, hashseed>>

\* A call of one of the order operations in a session of its own: op is
\* the operation's name and o what it did.
OrderCall(op, o) ==
    /\ ncalls < MaxOrderCalls
    /\ conversation_states' = o.db.conversation_states
    /\ orders' = o.db.orders
    /\ last' = [NoOp EXCEPT !.op = op, !.ret = o.order,
                            !.branch = IF o.raised THEN "raised" ELSE "returned",
                            !.pre = DB]
    /\ win' = IF tasks = <<>> THEN NoWin ELSE VoidWin
    /\ ncalls' = ncalls + 1
    /\ UNCHANGED <<tasks, nturns, catalog, hashseed>>

\* The management decision on an order.
ManagementDecisionCall(order_id, d) ==
    \E o \in {set_management_decision(DB, order_id, d.has_capacity,
                                       d.approved_amount, d.estimated_days)} :
       OrderCall("set_management_decision", o)

\* The payment link of an order.
PaymentLinkCall(order_id) ==
    \E o \in {create_payment_link(DB, order_id)} : OrderCall("create_payment_link", o)

\* The payment confirmation of an order.
MarkPaidCall(order_id) ==
    \E o \in {mark_order_paid(DB, order_id)} : OrderCall("mark_order_paid", o)

\* A run of init_db (the startup event, or the module run as a script).
InitDbCall(fail_at) ==
    /\ ncalls < MaxSeedRuns
    /\ catalog' = init_db(catalog, fail_at)
    /\ last' = [NoOp EXCEPT !.op = "init_db", !.branch = fail_at,
                            !.pre = DB, !.pre_catalog = Some(catalog)]
    /\ ncalls' = ncalls + 1
    /\ UNCHANGED <<conversation_states, orders, tasks, win, nturns, hashseed>>

\* A call of generate_step_message on the customer's state.
GenerateCall(phone) ==
    /\ ncalls < MaxPromptCalls
    /\ QueryState(DB, phone) # <<>>
    /\ last' = [NoOp EXCEPT !.op = "generate_step_message", !.phone = phone,
                            !.ret = Some(StepMessageText(QueryState(DB, phone)[1],
                                                         hashseed)),
                            !.prev = IF last.op = "generate_step_message"
                                     THEN last.ret ELSE None,
                            !.pre = DB, !.pre_catalog = Some(catalog)]
    /\ ncalls' = ncalls + 1
    /\ UNCHANGED <<conversation_states, orders, tasks, win, nturns, catalog, hashseed>>

\* The server process is started again: a new hash seed.
Restart(seed) ==
    /\ tasks = <<>>
    /\ hashseed' = seed
    /\ UNCHANGED <<conversation_states, orders, tasks, last, win, nturns, ncalls,
                   catalog>>

Next ==
    \/ \E phone \in Phones, msg \in Messages : TurnStart(phone, msg, TRUE)
    \/ \E i \in 1..MaxTurns, result \in Results, log_ok \in BOOLEAN :
          TurnResume(i, result, log_ok)
    \/ \E phone \in Phones : GetOrCreateCall(phone)
    \/ \E phone \in Phones, kwargs \in UpdateInputs : UpdateStateCall(phone, kwargs)
    \/ \E phone \in Phones : ResetStateCall(phone)

Spec == Init /\ [][Next]_vars

\* Inbound turns alone.
NextTurns ==
    \/ \E phone \in Phones, msg \in Messages : TurnStart(phone, msg, TRUE)
    \/ \E i \in 1..MaxTurns, result \in Results, log_ok \in BOOLEAN :
          TurnResume(i, result, log_ok)

SpecTurns == Init /\ [][NextTurns]_vars

\* Inbound turns whose free text holds keywords of the keyword fallback.
NextFallback ==
    \/ \E phone \in Phones, msg \in FallbackMessages : TurnStart(phone, msg, TRUE)
    \/ \E i \in 1..MaxTurns, result \in Results, log_ok \in BOOLEAN :
          TurnResume(i, result, log_ok)

SpecFallback == Init /\ [][NextFallback]_vars

\* Turns that lead to orders, and the external operations on orders.
NextOrders ==
    \/ \E phone \in Phones, msg \in OrderMessages : TurnStart(phone, msg, TRUE)
    \/ \E i \in 1..MaxTurns, result \in OrderResults, log_ok \in BOOLEAN :
          TurnResume(i, result, log_ok)
    \/ \E phone \in Phones, kwargs \in OrderUpdateInputs : UpdateStateCall(phone, kwargs)
    \/ \E order_id \in OrderIds, d \in Decisions : ManagementDecisionCall(order_id, d)
    \/ \E order_id \in OrderIds : PaymentLinkCall(order_id)
    \/ \E order_id \in OrderIds : MarkPaidCall(order_id)

SpecOrders == Init /\ [][NextOrders]_vars

\* Turns of two customers, interleaved.
NextIsolation ==
    \/ \E phone \in TwoPhones, msg \in IsolationMessages : TurnStart(phone, msg, TRUE)
    \/ \E i \in 1..MaxTurns, result \in IsolationResults : TurnResume(i, result, TRUE)

SpecIsolation == Init /\ [][NextIsolation]_vars

\* Turns in which the commit of the order may fail.
NextPersist ==
    \/ \E phone \in Phones, msg \in PersistMessages, commit_ok \in BOOLEAN :
          TurnStart(phone, msg, commit_ok)
    \/ \E i \in 1..MaxTurns, result \in PersistResults, log_ok \in BOOLEAN :
          TurnResume(i, result, log_ok)

SpecPersist == Init /\ [][NextPersist]_vars

\* Runs of init_db, one after another, on a database whose catalog tables
\* are empty, seeded or filled by somebody else.
InitSeed ==
    /\ conversation_states = <<>>
    /\ orders = <<>>
    /\ tasks = <<>>
    /\ last = NoOp
    /\ win = NoWin
    /\ nturns = 0
    /\ ncalls = 0
    /\ catalog \in Catalogs
    /\ hashseed = "seed_a"

NextSeed == \E fail_at \in SeedFailures : InitDbCall(fail_at)

SpecSeed == InitSeed /\ [][NextSeed]_vars

\* Turns of a customer who greets.
NextGreeting ==
    \/ \E phone \in Phones, msg \in GreetingMessages : TurnStart(phone, msg, TRUE)
    \/ \E i \in 1..MaxTurns, result \in GreetingResults, log_ok \in BOOLEAN :
          TurnResume(i, result, log_ok)

SpecGreeting == Init /\ [][NextGreeting]_vars

\* Calls of generate_step_message, in one process or across restarts.
InitPrompts ==
    /\ conversation_states \in {<<state>> : state \in PromptStates}
    /\ orders = <<>>
    /\ tasks = <<>>
    /\ last = NoOp
    /\ win = NoWin
    /\ nturns = 0
    /\ ncalls = 0
    /\ catalog = SeededCatalog
    /\ hashseed \in HashSeeds

NextPrompts ==
    \/ \E phone \in Phones : GenerateCall(phone)
    \/ \E seed \in HashSeeds : Restart(seed)

SpecPrompts == InitPrompts /\ [][NextPrompts]_vars

\* ================================================================ properties
\* The customer's row in a store, as a tuple of rows.
RowOf(db, phone) ==
    SelectSeq(db.conversation_states, LAMBDA r : r.phone_number = phone)

\* Step greeting with category, type, variant, quantity and add-ons null.
Cleared(row) ==
    /\ row.current_step = "greeting"
    /\ row.selected_category_id = None
    /\ row.selected_type_id = None
    /\ row.selected_variant_id = None
    /\ row.selected_quantity = None
    /\ row.selected_accessories = None

\* The last operation was a turn that took the affirmative branch of the
\* confirm step.
Affirmed == last.op = "turn_start" /\ last.branch = "confirm_ok"

\* C1: when a customer at step confirm sends an affirmative keyword, the turn
\* creates exactly one order for that customer and leaves the customer's
\* conversation state at step greeting with all selections cleared.
C1_AffirmCreatesOneOrderAndResets ==
    Affirmed =>
        /\ Len(orders) = Len(last.pre.orders) + 1
        /\ orders[Len(orders)].customer_phone = last.phone
        /\ Cleared(RowOf(DB, last.phone)[1])

\* C2: for a state with category C, variant V and quantity Q all non-null,
\* the order made by create_order_from_state stores a snapshot that contains
\* the category C, the name of the variant V and the quantity Q.
C2_SnapshotHoldsSelections ==
    Affirmed =>
        LET state == RowOf(last.pre, last.phone)[1]
            order == orders[Len(orders)]
        IN (/\ state.selected_category_id # None
            /\ state.selected_variant_id # None
            /\ state.selected_quantity # None)
           => /\ IsDict(order.order_details)
              /\ order.order_details.dict.category =
                    Some(GetById(ProductCategories, state.selected_category_id)[1].name)
              /\ order.order_details.dict.variant # None
              /\ order.order_details.dict.variant[1].name =
                    GetById(ProductVariants, state.selected_variant_id)[1].name
              /\ order.order_details.dict.quantity = state.selected_quantity

\* C3: once an order exists, no later operation on the conversation state
\* (reset_state, update_state, alone or inside a turn) changes the
\* order_details the order stores.
C3_SnapshotIsFrozen ==
    \A i \in 1..Len(last.pre.orders) :
        /\ i <= Len(orders)
        /\ orders[i].order_details = last.pre.orders[i].order_details

\* An order stores a snapshot with quantity 1000 and the state it was made
\* from has just been reset or sent back to the quantity step.
C3_Witness ==
    /\ last.branch \in {"reset", "confirm_cancel", "edit"}
    /\ conversation_states # last.pre.conversation_states
    /\ \E i \in 1..Len(last.pre.orders) :
          /\ IsDict(orders[i].order_details)
          /\ orders[i].order_details.dict.quantity = Some(1000)

\* C4: every order made by create_order_from_state has, when it is made,
\* status PendingApproval, no total amount, payment status Pending and the
\* phone number of the conversation state it was made from.
C4_NewOrderIsPendingApproval ==
    Affirmed =>
        LET state == RowOf(last.pre, last.phone)[1]
            order == orders[Len(orders)]
        IN /\ Len(orders) = Len(last.pre.orders) + 1
           /\ order.status = "PendingApproval"
           /\ order.total_amount = None
           /\ order.payment_status = "Pending"
           /\ order.customer_phone = state.phone_number

\* An order has just been made from a state at the confirm step.
C4_Witness ==
    /\ Affirmed
    /\ Len(orders) = Len(last.pre.orders) + 1
    /\ RowOf(last.pre, last.phone)[1].current_step = "confirm"

\* What a reset turn leaves: the state cleared at greeting, the greeting
\* prompt as the one message sent, no order made.
ResetDone ==
    /\ last.branch = "reset"
    /\ Cleared(RowOf(DB, last.phone)[1])
    /\ last.sent = <<_greeting_message>>
    /\ orders = last.pre.orders

\* C5 as stated: at every step, a turn whose message is "cancel", "restart"
\* or a local equivalent, in any letter case, leaves the state cleared at
\* greeting, emits the greeting prompt and makes no order.
C5_CancelOrRestartResets ==
    (/\ last.op = "turn_start"
     /\ Normalize(last.msg) \in {W_cancel, M_restart, W_ilghaa, W_bidaya, W_min_jadid})
    => ResetDone

\* C5 as the code has it: the same, for the words "cancel", "start" and the
\* three local commands; "restart" is not one of them.
C5_ResetCommandResets ==
    (/\ last.op = "turn_start"
     /\ Normalize(last.msg) \in {W_cancel, W_start, W_ilghaa, W_bidaya, W_min_jadid})
    => ResetDone

\* " Cancel " was sent at the confirm step, with selections made.
C5_Witness ==
    /\ last.op = "turn_start"
    /\ last.msg = M_cancel
    /\ last.branch = "reset"
    /\ RowOf(last.pre, last.phone) # <<>>
    /\ RowOf(last.pre, last.phone)[1].current_step = "confirm"
    /\ RowOf(last.pre, last.phone)[1].selected_quantity # None

\* One turn run alone on a store, from its first line to its last: the
\* stores it may leave.  A turn that consulted no interpretation when it
\* overlapped may receive any.
SerialTurn(db, t) ==
    LET s == TurnStartEffect(db, t.phone, t.msg, TRUE) IN
    IF s.branch # "await" THEN {s.db}
    ELSE { TurnResumeEffect(s.db, s.sess, t.phone, t.msg, r, TRUE).db :
             r \in IF t.result # None THEN {t.result[1]} ELSE Results }

SerialOrder(db, a, b) == UNION { SerialTurn(d, b) : d \in SerialTurn(db, a) }

\* Two turns of one customer overlapped and both have ended.
OverlapEnded ==
    /\ tasks = <<>>
    /\ win.state = "open"
    /\ win.n = 2
    /\ Len(win.done) = 2
    /\ win.done[1].phone = win.done[2].phone

\* C6: two turns of one customer that overlap leave the conversation state
\* that running them one after the other, in one of the two orders, leaves:
\* no update is lost to a write of a turn that read the state earlier.
C6_OverlappingTurnsSerializable ==
    OverlapEnded =>
        conversation_states \in
            { d.conversation_states :
                d \in SerialOrder(win.base, win.done[1], win.done[2])
                         \cup SerialOrder(win.base, win.done[2], win.done[1]) }

\* The last operation reset the conversation state.
ResetActed ==
    \/ last.op = "reset_state"
    \/ last.op = "turn_start" /\ last.branch \in {"reset", "confirm_cancel"}

\* C7: reset_state, at any step and with any selections, leaves the state at
\* step greeting with category, type, variant, quantity and add-ons null.
C7_ResetYieldsClearedGreeting ==
    ResetActed =>
        /\ Cleared(RowOf(DB, last.phone)[1])
        /\ last.op = "reset_state" => last.ret = Some(RowOf(DB, last.phone)[1])

\* A state at the confirm step with category, type, variant and quantity
\* selected has just been reset.
C7_Witness ==
    /\ ResetActed
    /\ RowOf(last.pre, last.phone) # <<>>
    /\ LET before == RowOf(last.pre, last.phone)[1] IN
       /\ before.current_step = "confirm"
       /\ before.selected_category_id # None
       /\ before.selected_type_id # None
       /\ before.selected_variant_id # None
       /\ before.selected_quantity # None

\* C8: reset_state clears the customer name and the notes as well, and
\* leaves the phone number of the state unchanged.
C8_ResetClearsNameAndNotes ==
    (ResetActed /\ RowOf(last.pre, last.phone) # <<>>) =>
        LET before == RowOf(last.pre, last.phone)[1]
            after  == RowOf(DB, last.phone)[1]
        IN /\ after.customer_name = None
           /\ after.notes = None
           /\ after.id = before.id
           /\ after.phone_number = before.phone_number

\* C9: get_or_create_state is idempotent: a second call, with no update in
\* between, returns the state the first returned and inserts no record.
C9_GetOrCreateIdempotent ==
    /\ \A phone \in Phones :
          LET first  == get_or_create_state(DB, None, phone)
              second == get_or_create_state(first.db, None, phone)
          IN /\ second.sess = first.sess
             /\ second.db = first.db
    /\ (last.op = "get_or_create_state" /\ RowOf(last.pre, last.phone) # <<>>) =>
          /\ conversation_states = last.pre.conversation_states
          /\ last.ret = Some(RowOf(last.pre, last.phone)[1])

\* get_or_create_state was called for a customer whose record, made by an
\* earlier call, is past the greeting step.
C9_Witness ==
    /\ last.op = "get_or_create_state"
    /\ RowOf(last.pre, last.phone) # <<>>
    /\ RowOf(last.pre, last.phone)[1].current_step # "greeting"
    /\ last.ret = Some(RowOf(last.pre, last.phone)[1])

\* C10: a customer has at most one conversation state record in every
\* reachable state; a record made by get_or_create_state is at step greeting
\* with nothing selected; every turn in flight holds that one record.
C10_OneStatePerCustomer ==
    /\ \A phone \in Phones : Len(RowOf(DB, phone)) <= 1
    /\ \A i \in 1..Len(tasks) :
          /\ RowOf(DB, tasks[i].phone) # <<>>
          /\ tasks[i].sess # None
          /\ tasks[i].sess[1].id = RowOf(DB, tasks[i].phone)[1].id
    /\ (/\ last.op \in {"turn_start", "get_or_create_state"}
        /\ RowOf(last.pre, last.phone) = <<>>)
       => /\ RowOf(DB, last.phone) # <<>>
          /\ RowOf(DB, last.phone)[1] =
                NewState(RowOf(DB, last.phone)[1].id, last.phone)

\* Two turns of a customer that had no record are both in flight.
C10_Witness ==
    /\ Len(tasks) = 2
    /\ nturns = 2
    /\ ncalls = 0
    /\ tasks[1].phone = tasks[2].phone
    /\ Len(RowOf(DB, tasks[1].phone)) = 1
    /\ tasks[1].sess = tasks[2].sess

\* The last operation ended a turn.
TurnEnded ==
    \/ last.op = "turn_resume"
    \/ last.op = "turn_start" /\ last.branch # "await"

\* C11: every turn sends exactly one outbound message: a turn that completes
\* sends one response and no apology, a turn in which a step fails sends the
\* fixed apology and nothing else; no turn sends zero or two messages.
C11_ExactlyOneOutboundMessage ==
    TurnEnded =>
        /\ Len(last.sent) = 1
        /\ last.sent[1] # NoMessage
        /\ last.branch \in {"error", "log_failed"} <=> last.sent[1] = ErrorText

\* The position of a step in STEPS.
StepPos(step) == CHOOSE i \in 1..Len(STEPS) : STEPS[i] = step

\* The last operation ended an interpreted turn (its message was no reset,
\* edit, cancel or affirmative command) that no other turn overlapped and
\* that found a state of its customer.
InterpretedAlone ==
    /\ last.op = "turn_resume"
    /\ last.branch = "interpreted"
    /\ win.state = "open"
    /\ win.n = 1
    /\ RowOf(last.pre, last.phone) # <<>>

\* C12: in a flow without edit and cancel messages the current step never
\* moves backwards in the order of STEPS: every turn leaves the step at the
\* same or a later position.
C12_StepNeverMovesBack ==
    InterpretedAlone =>
        StepPos(RowOf(DB, last.phone)[1].current_step)
            >= StepPos(RowOf(last.pre, last.phone)[1].current_step)

\* The catalog offers no variant kind for the selected type.
NoVariantChoice(row) ==
    /\ row.selected_type_id # None
    /\ _variant_message(row.selected_type_id) = NoMessage

\* C13: a conversation state is at a step only if the selection of the
\* step's predecessor is made: the category at type, the type at size and
\* variant, the variant at quantity and confirm (unless the catalog offers
\* no variant kind for the selected type).
C13_StepHasPredecessorSelection ==
    \A i \in 1..Len(conversation_states) :
        LET row == conversation_states[i] IN
        /\ row.current_step = "type" => row.selected_category_id # None
        /\ row.current_step \in {"size", "variant"} => row.selected_type_id # None
        /\ row.current_step \in {"quantity", "confirm"} =>
              row.selected_variant_id # None \/ NoVariantChoice(row)

\* C14: the current_step of every conversation state is one of the nine
\* steps of STEPS, in every reachable state.
C14_StepIsEnumerated ==
    \A i \in 1..Len(conversation_states) :
        \E k \in 1..Len(STEPS) : conversation_states[i].current_step = STEPS[k]

\* A turn has just written the step: an extracted quantity moved the state
\* to confirm.
C14_Witness ==
    /\ last.op = "turn_resume"
    /\ RowOf(last.pre, last.phone) # <<>>
    /\ RowOf(last.pre, last.phone)[1].current_step # "confirm"
    /\ RowOf(DB, last.phone)[1].current_step = "confirm"

\* The last operation began a turn of a customer whose state was at the
\* confirm step.
TurnAtConfirm ==
    /\ last.op = "turn_start"
    /\ RowOf(last.pre, last.phone) # <<>>
    /\ RowOf(last.pre, last.phone)[1].current_step = "confirm"

\* C15: when a customer at step confirm sends the edit word, the turn moves
\* the step to quantity, keeps every selection and every other attribute,
\* makes no order and emits the quantity prompt.
C15_EditReturnsToQuantity ==
    (TurnAtConfirm /\ Normalize(last.msg) \in {W_taadil, W_edit}) =>
        LET before == RowOf(last.pre, last.phone)[1]
            after  == RowOf(DB, last.phone)[1]
        IN /\ after = [before EXCEPT !.current_step = "quantity"]
           /\ orders = last.pre.orders
           /\ last.sent = <<_quantity_message(before)>>
           /\ last.sent[1].kind = "quantity"

\* "edit" was sent at the confirm step with quantity 1000 and a variant
\* selected.
C15_Witness ==
    /\ TurnAtConfirm
    /\ last.msg = M_edit
    /\ last.branch = "edit"
    /\ RowOf(last.pre, last.phone)[1].selected_quantity = Some(1000)
    /\ RowOf(last.pre, last.phone)[1].selected_variant_id # None

CancelWordAtConfirm ==
    /\ TurnAtConfirm
    /\ Normalize(last.msg) \in {W_ilghaa, W_alghaa, W_cancel}

\* C17 as stated: when a customer at step confirm sends a word of the
\* cancellation vocabulary of the confirm step, the turn resets the state to
\* greeting, makes no order, and its one outbound message is the
\* cancellation acknowledgment.
C17_CancelAtConfirmAcknowledged ==
    CancelWordAtConfirm =>
        /\ Cleared(RowOf(DB, last.phone)[1])
        /\ orders = last.pre.orders
        /\ last.sent = <<CancelledText>>

\* C17 as the code has it: the state is reset and no order is made for every
\* such word; the one outbound message is the cancellation acknowledgment
\* for the word that is no reset command, and the greeting prompt for the
\* two words that are reset commands as well.
C17_CancelAtConfirmResets ==
    CancelWordAtConfirm =>
        /\ Cleared(RowOf(DB, last.phone)[1])
        /\ orders = last.pre.orders
        /\ last.sent = IF Normalize(last.msg) = W_alghaa
                       THEN <<CancelledText>> ELSE <<_greeting_message>>

\* The cancellation word that is no reset command was sent at the confirm
\* step, with a quantity selected.
C17_Witness ==
    /\ CancelWordAtConfirm
    /\ last.msg = M_alghaa
    /\ last.branch = "confirm_cancel"
    /\ RowOf(last.pre, last.phone)[1].selected_quantity # None

\* The interpretation the last turn received extracted a category name, and
\* nothing else, that no catalog category matches.
UnresolvedCategoryOnly ==
    /\ last.op = "turn_resume"
    /\ last.result # None
    /\ LET data == last.result[1].data IN
       /\ data.category # None
       /\ data.category[1] # <<>>
       /\ \A i \in 1..Len(ProductCategories) :
             ~Like(ProductCategories[i].name, data.category[1])
       /\ data.quantity = None
       /\ ~data.ready_for_invoice

\* C18: a turn whose extracted fields hold a category name that matches no
\* catalog category, and no other field, leaves the conversation state as
\* it was: same step, same selections.
C18_UnresolvedCategoryKeepsState ==
    UnresolvedCategoryOnly => conversation_states = last.pre.conversation_states

\* Such a turn has ended for a customer who had selected a category and was
\* at the type step.
C18_Witness ==
    /\ UnresolvedCategoryOnly
    /\ last.result[1].data.category = Some(CatUnknown)
    /\ RowOf(DB, last.phone)[1].current_step = "type"
    /\ RowOf(DB, last.phone)[1].selected_category_id # None

\* The last operation ended a turn whose text interpretation failed (and
\* whose log rows were written).
InterpretationFailed ==
    /\ last.op = "turn_resume"
    /\ last.result = Some(AnalyzeFailed)
    /\ last.branch # "log_failed"

\* C19: when text interpretation fails inside a turn, the turn does not
\* crash and its outbound message is the prompt of the customer's current
\* step (generate_step_message), not an error or apology text.
C19_FailedInterpretationSendsStepPrompt ==
    InterpretationFailed =>
        /\ last.branch # "error"
        /\ last.sent # <<>>
        /\ last.sent[1] = generate_step_message(RowOf(DB, last.phone)[1])

\* C20: when the text interpretation fails during a turn, the fields merged
\* into the conversation state are the ones fallback_intent_detection
\* extracts from the same message: its category, when the catalog has it,
\* and its quantity are then the state's.
C20_FailedInterpretationMergesFallback ==
    InterpretationFailed =>
        LET found == fallback_intent_detection(last.msg)
            row   == RowOf(DB, last.phone)[1]
        IN /\ (/\ found.product_category # NoCategory
               /\ FindCategory(found.product_category) # <<>>)
              => row.selected_category_id =
                    Some(FindCategory(found.product_category)[1].id)
           /\ TruthyInt(found.extracted_info.quantity)
              => row.selected_quantity = found.extracted_info.quantity

\* C21: analyze_message never raises to its caller: when the completion call
\* fails it returns the fixed response text and data whose only content is
\* intent = error, and the turn that receives this result changes no
\* selection and no step of the conversation state.
C21_FailedInterpretationChangesNothing ==
    (last.op = "turn_resume" /\ last.result = Some(analyze_message(ApiRaised)))
       => /\ last.result[1].response = "sorry, an error occurred"
          /\ last.result[1].data = Data("error", None, None, FALSE)
          /\ conversation_states = last.pre.conversation_states

\* A turn at step confirm, with a quantity selected, received the failure
\* result.
C21_Witness ==
    /\ InterpretationFailed
    /\ last.result = Some(analyze_message(ApiRaised))
    /\ RowOf(DB, last.phone)[1].current_step = "confirm"
    /\ RowOf(DB, last.phone)[1].selected_quantity # None
    /\ last.sent # <<>>

\* The last operation applied a management decision to an order.
DecisionApplied ==
    /\ last.op = "set_management_decision"
    /\ last.branch = "returned"

\* The order of the given id as the last operation found it.
OrderBefore(order_id) ==
    SelectSeq(last.pre.orders, LAMBDA o : o.id = order_id)[1]

\* C22: a management decision changes the status of an order only when the
\* order's status is PendingApproval, and then to ApprovedWaitingPayment or
\* RejectedNoCapacity; it is never applied to an order in another status.
C22_DecisionOnlyOnPendingApproval ==
    DecisionApplied =>
        /\ OrderBefore(last.ret[1].id).status = "PendingApproval"
        /\ last.ret[1].status \in {"ApprovedWaitingPayment", "RejectedNoCapacity"}

\* The capacity decision fields of an order.
DecisionFields(order) ==
    <<order.has_capacity, order.approved_amount, order.estimated_days>>

\* C23: the capacity decision fields of an order are set at most once: once
\* a management decision was applied to an order, no operation changes its
\* has_capacity, approved_amount or estimated_days.
C23_DecisionFieldsSetOnce ==
    \A i \in DOMAIN last.pre.orders :
        last.pre.orders[i].has_capacity # None =>
            /\ i \in DOMAIN orders
            /\ DecisionFields(orders[i]) = DecisionFields(last.pre.orders[i])

C25_TurnsKeepExistingOrders ==
    last.op \in {"turn_start", "turn_resume"} =>
        /\ Len(orders) >= Len(last.pre.orders)
        /\ \A i \in DOMAIN last.pre.orders : orders[i] = last.pre.orders[i]

\* A turn added an order for a customer who has an order that management
\* approved.
C25_Witness ==
    /\ last.op = "turn_start"
    /\ last.branch = "confirm_ok"
    /\ Len(orders) = Len(last.pre.orders) + 1
    /\ \E i \in DOMAIN last.pre.orders :
          /\ last.pre.orders[i].status = "ApprovedWaitingPayment"
          /\ last.pre.orders[i].customer_phone = last.phone

\* C26: a turn for one customer changes no field of the conversation state
\* of another customer, whatever the interleaving of the two customers'
\* turns: after either step of a turn, the row of every other customer is
\* the row the step found.
C26_TurnLeavesOtherCustomersState ==
    last.op \in {"turn_start", "turn_resume"} =>
        \A p \in TwoPhones \ {last.phone} : RowOf(DB, p) = RowOf(last.pre, p)

\* A turn of one customer wrote a quantity into that customer's row while a
\* turn of the other customer, whose row holds a quantity, is suspended.
C26_Witness ==
    /\ last.op = "turn_resume"
    /\ RowOf(last.pre, last.phone)[1].selected_quantity = None
    /\ RowOf(DB, last.phone)[1].selected_quantity # None
    /\ \E p \in TwoPhones \ {last.phone} :
          /\ RowOf(DB, p) # <<>>
          /\ RowOf(DB, p)[1].selected_quantity # None
          /\ \E i \in DOMAIN tasks : tasks[i].phone = p

\* The last operation was a turn in which the commit of the order raised.
PersistFailed ==
    /\ last.op = "turn_start"
    /\ last.branch = "persist_failed"

\* C27: when persisting the order fails during materialization, no order
\* row of the attempt exists afterwards, the customer's conversation state
\* is the one the turn found, and the turn's outbound message is the fixed
\* apology.
C27_FailedPersistLeavesNothing ==
    PersistFailed =>
        /\ orders = last.pre.orders
        /\ conversation_states = last.pre.conversation_states
        /\ last.sent = <<ErrorText>>

\* The commit raised in a turn of a customer at step confirm who already
\* has an order.
C27_Witness ==
    /\ PersistFailed
    /\ RowOf(DB, last.phone)[1].current_step = "confirm"
    /\ Len(orders) = 1

\* The type has variants, and none of them has a variant-kind label.
NoVariantKinds(type_id) ==
    /\ TruthyInt(type_id)
    /\ \E i \in DOMAIN ProductVariants : ProductVariants[i].type_id = type_id[1]
    /\ \A i \in DOMAIN ProductVariants :
          ProductVariants[i].type_id = type_id[1] =>
             ProductVariants[i].variant_type = None

\* C28: for a type none of whose variants has a variant-kind label, no turn
\* emits a variant-selection prompt, and a turn that ends with such a type
\* selected does not leave the conversation state at step variant: the
\* state is advanced past it.
C28_VariantStepSkippedWithoutKinds ==
    (/\ TurnEnded
     /\ RowOf(DB, last.phone) # <<>>
     /\ NoVariantKinds(RowOf(DB, last.phone)[1].selected_type_id))
    => /\ \A i \in DOMAIN last.sent : last.sent[i].kind # "variant"
       /\ RowOf(DB, last.phone)[1].current_step # "variant"

\* No row of the table is there twice.
NoDuplicate(rows) ==
    \A i, j \in DOMAIN rows : rows[i] = rows[j] => i = j

\* The last operation was a run of init_db in which no commit raised.
SeedRunCompleted ==
    /\ last.op = "init_db"
    /\ last.branch = "none"

\* C29: catalog seeding is idempotent: after a run of init_db, a further run
\* leaves exactly the rows (categories, types, variants, add-ons) the first
\* left, and no table holds a row twice.
C29_SeedingIsIdempotent ==
    /\ \A t \in DOMAIN catalog : NoDuplicate(catalog[t])
    /\ SeedRunCompleted =>
          /\ \A t \in DOMAIN catalog : catalog[t] # <<>>
          /\ \A f \in SeedFailures : init_db(catalog, f) = catalog
    /\ (/\ SeedRunCompleted
        /\ \A t \in DOMAIN catalog : last.pre_catalog[1][t] # <<>>)
       => catalog = last.pre_catalog[1]

\* A third run of init_db on a database that was empty before the first:
\* the run found the seeded catalog.
C29_Witness ==
    /\ SeedRunCompleted
    /\ ncalls = MaxSeedRuns
    /\ last.pre_catalog = Some(SeededCatalog)
    /\ catalog = SeededCatalog

\* The last operation ended the turn of a greeting that a customer without
\* a conversation state sent, no other turn running meanwhile; the chat log
\* rows were written.
NewCustomerGreeted ==
    /\ last.op = "turn_resume"
    /\ last.msg = M_hello
    /\ last.branch = "interpreted"
    /\ win.state = "open"
    /\ win.n = 1
    /\ RowOf(win.base, last.phone) = <<>>

MatchingCategories(name) ==
    {i \in 1..Len(ProductCategories) : Like(ProductCategories[i].name, name)}

\* The interpretation the last turn received extracted a category name, and
\* nothing else, that a catalog category matches; the turn's log rows were
\* written.
ResolvedCategoryOnly ==
    /\ last.op = "turn_resume"
    /\ last.branch = "interpreted"
    /\ LET data == last.result[1].data IN
       /\ data.category # None
       /\ data.category[1] # <<>>
       /\ MatchingCategories(data.category[1]) # {}
       /\ data.quantity = None
       /\ ~data.ready_for_invoice

\* The id of the first catalog category the last turn's category name matches.
ResolvedCategoryId ==
    LET m == MatchingCategories(last.result[1].data.category[1]) IN
    ProductCategories[CHOOSE i \in m : \A j \in m : i <= j].id

\* The prompt that lists the types of a category.
TypeList(category_id) ==
    LET ids == {ProductTypes[i].id : i \in {j \in 1..Len(ProductTypes) :
                                              ProductTypes[j].category_id = category_id}}
    IN [kind |-> "type",
        types |-> [i \in 1..Cardinality(ids) |->
                      CHOOSE t \in ids : Cardinality({u \in ids : u < t}) = i - 1]]

\* C31: when the extracted fields of a turn contain a category name that
\* matches a catalog category, the turn sets selected_category_id to that
\* category's id and current_step to type, and the outbound message lists
\* the types under that category (stated here for the turns whose
\* interpretation produced no response text of its own, in which the
\* outbound message is the step prompt).
C31_ResolvedCategoryListsTypes ==
    (ResolvedCategoryOnly /\ last.result[1].response = "") =>
        /\ RowOf(DB, last.phone)[1].selected_category_id = Some(ResolvedCategoryId)
        /\ RowOf(DB, last.phone)[1].current_step = "type"
        /\ last.sent = <<TypeList(ResolvedCategoryId)>>

\* The interpretation the last turn received extracted a quantity (and no
\* ready-for-invoice flag); the turn's log rows were written.
QuantityExtracted ==
    /\ last.op = "turn_resume"
    /\ last.branch = "interpreted"
    /\ TruthyInt(last.result[1].data.quantity)
    /\ ~last.result[1].data.ready_for_invoice

\* C32: when the extracted fields of a turn contain a quantity, the turn
\* sets selected_quantity to it and current_step to confirm, from every
\* prior step and whether or not category, type and variant are selected;
\* when the same turn also resolves a category, the final step is confirm
\* and the category's id is recorded.
C32_QuantityAdvancesToConfirm ==
    QuantityExtracted =>
        LET data == last.result[1].data
            row  == RowOf(DB, last.phone)[1]
        IN /\ row.selected_quantity = data.quantity
           /\ row.current_step = "confirm"
           /\ (/\ data.category # None
               /\ MatchingCategories(data.category[1]) # {})
              => row.selected_category_id = Some(ResolvedCategoryId)

\* The last operation ended a turn whose interpretation carried the
\* ready-for-invoice flag, for a customer whose state held a variant of the
\* catalog and a quantity; no other operation ran during the turn.
ReadyForInvoiceWithVariant ==
    /\ last.op = "turn_resume"
    /\ win.state = "open"
    /\ win.n = 1
    /\ last.result[1].data.ready_for_invoice
    /\ RowOf(last.pre, last.phone) # <<>>
    /\ LET row == RowOf(last.pre, last.phone)[1] IN
       /\ row.selected_variant_id # None
       /\ row.selected_variant_id[1] \in DOMAIN ProductVariants
       /\ TruthyInt(row.selected_quantity)

\* C33: when the extracted fields of a turn carry the ready-for-invoice flag
\* and the state has a resolvable variant and a quantity, the turn creates
\* an order at once, without the confirm step, and leaves the conversation
\* state reset to greeting.
C33_ReadyForInvoiceCreatesOrder ==
    ReadyForInvoiceWithVariant =>
        /\ Len(orders) = Len(last.pre.orders) + 1
        /\ Cleared(RowOf(DB, last.phone)[1])

\* The last operation ended a turn that completed: no step of it failed.
TurnCompleted ==
    /\ TurnEnded
    /\ last.branch \notin {"error", "log_failed", "persist_failed"}

\* C34: every turn that completes records its inbound and its outbound
\* message as log entries, one incoming and one outgoing entry per turn,
\* command turns (reset, confirm, edit, cancel) as well as interpreted
\* turns.
C34_CompletedTurnIsLogged ==
    TurnCompleted =>
        /\ Len(last.logs) = 2
        /\ last.logs[1].message_type = "incoming"
        /\ last.logs[1].message_content = last.msg
        /\ last.logs[2].message_type = "outgoing"
        /\ last.logs[2].message_content = last.sent[1]

\* C35: prompt generation mutates nothing and is repeatable: a call of
\* generate_step_message leaves the conversation state, the catalog and the
\* orders unchanged, and two calls on the same state and catalog return the
\* same prompt.
C35_PromptGenerationIsPure ==
    last.op = "generate_step_message" =>
        /\ DB = last.pre
        /\ catalog = last.pre_catalog[1]
        /\ last.prev # None => last.ret = last.prev

\* C36: in every state that inbound turns alone reach, selected_type_id and
\* selected_variant_id of every conversation state are null and
\* current_step is greeting, type, quantity or confirm: no turn selects a
\* type or a variant, or moves the state to category, size, variant,
\* accessories or invoice.
C36_TurnsSelectNoTypeOrVariant ==
    \A i \in DOMAIN conversation_states :
        /\ conversation_states[i].selected_type_id = None
        /\ conversation_states[i].selected_variant_id = None
        /\ conversation_states[i].current_step \in {"greeting", "type", "quantity", "confirm"}

\* Turns took a customer through type and confirm, and the edit word then
\* took the state to the quantity step, with a category and a quantity
\* selected.
C36_Witness ==
    /\ last.op = "turn_start"
    /\ last.branch = "edit"
    /\ RowOf(DB, last.phone)[1].current_step = "quantity"
    /\ RowOf(DB, last.phone)[1].selected_category_id # None
    /\ RowOf(DB, last.phone)[1].selected_quantity # None

\* C37: in every state that management decisions, payment-link creations
\* and payment confirmations reach, an order with status Paid has
\* payment_status Paid and a non-null paid_at.
C37_PaidOrderHasPaidPayment ==
    \A i \in DOMAIN orders :
        orders[i].status = "Paid" =>
            /\ orders[i].payment_status = "Paid"
            /\ orders[i].paid_at # None

\* C38: the status of an order becomes Paid only from
\* ApprovedWaitingPayment: the order a payment confirmation marked Paid was
\* ApprovedWaitingPayment immediately before it, so an order in
\* PendingApproval or RejectedNoCapacity is never marked Paid.
C38_PaidOnlyFromApprovedWaitingPayment ==
    (/\ last.op = "mark_order_paid"
     /\ last.branch = "returned"
     /\ last.ret[1].status = "Paid")
        => OrderBefore(last.ret[1].id).status = "ApprovedWaitingPayment"

\* The row of the customer as the last operation found it: the row that
\* get_or_create_state inserts when there was none.
RowBefore(phone) ==
    IF RowOf(last.pre, phone) # <<>>
    THEN RowOf(last.pre, phone)[1]
    ELSE NewState(Len(last.pre.conversation_states) + 1, phone)

\* C39: update_state changes only the fields named in its arguments (and
\* the timestamp, which is not among the modelled columns): every other
\* field of the customer's conversation state keeps its value, a named
\* field the state has takes the value given, and an argument naming a
\* field the state does not have is ignored: the call returns the state and
\* changes nothing else, neither another customer's state nor an order.
C39_UpdateChangesNamedFieldsOnly ==
    last.op = "update_state" =>
        /\ last.ret = RowOf(DB, last.phone)
        /\ \A f \in Fields :
              last.ret[1][f] = IF f \in DOMAIN last.kwargs[1]
                               THEN last.kwargs[1][f]
                               ELSE RowBefore(last.phone)[f]
        /\ \A i \in DOMAIN last.pre.conversation_states :
              last.pre.conversation_states[i].phone_number # last.phone =>
                  conversation_states[i] = last.pre.conversation_states[i]
        /\ orders = last.pre.orders

\* A customer whose turns had selected a category and a quantity was given
\* a name, a note and accessories by update_state: the category, the
\* quantity and the step are as they were.
C39_Witness ==
    /\ last.op = "update_state"
    /\ DOMAIN last.kwargs[1] = {"customer_name", "notes", "selected_accessories"}
    /\ RowOf(last.pre, last.phone) # <<>>
    /\ RowOf(last.pre, last.phone)[1].selected_category_id # None
    /\ RowOf(last.pre, last.phone)[1].selected_quantity # None
    /\ RowOf(DB, last.phone)[1].selected_quantity # None
    /\ RowOf(DB, last.phone)[1].customer_name # None
====
